---- MODULE Spec2Model ----
(***************************************************************************)
(* Model of main.py: station-name disambiguation                           *)
(* (convert_station_str_to_station), the itinerary listing and selection   *)
(* of the __main__ block, and the map construction of draw /               *)
(* draw_and_save_to_file.                                                  *)
(*                                                                         *)
(* Text is modelled as a sequence of string tokens, a datetime as the      *)
(* tuple <<year, month, day, hour, minute>>, Python's None for an optional *)
(* datetime as the empty tuple.  The external collaborators                *)
(* (hafas_client.locations, hafas_client.journeys, input, map.save) are    *)
(* nondeterministic choices over bounded sets of results.                  *)
(***************************************************************************)
EXTENDS Integers, Sequences, FiniteSets, TLC

\* ---------------------------------------------------------------- bounds
\* longest list hafas_client.locations returns in the model
MaxLoc == 6
\* number of different first stations a lookup result may start with
MaxOffset == 2
\* longest line typed at a prompt
MaxLineLen == 2
\* most legs of a journey
MaxLegs == 7
\* most stopovers of a leg
MaxStops == 2
\* longest list hafas_client.journeys returns in the model
MaxJourneys == 2
\* number of different batches of each length
MaxVariants == 2

\* ------------------------------------------------------ program constants
\* locations[:5]
ShownLimit == 5
\* folium.Map(..., zoom_start=8)
ZoomStart == 8
\* folium.Circle(radius=1000, ...)
CircleRadius == 1000
\* ["Red","Blue","Green","Black","White"]
Palette == <<"Red", "Blue", "Green", "Black", "White">>

\* ------------------------------------------------------------------ text
None == <<>>

DigitChars == <<"0", "1", "2", "3", "4", "5", "6", "7", "8", "9">>

DigitSet == {DigitChars[i] : i \in 1..10}

\* the characters a typed line is made of in the model
Chars == DigitSet \cup {"-", "x"}

DigitValue(c) == CHOOSE d \in 0..9 : DigitChars[d + 1] = c

RECURSIVE DigitsValue(_)
DigitsValue(s) ==
    IF s = <<>> THEN 0
    ELSE 10 * DigitsValue(SubSeq(s, 1, Len(s) - 1)) + DigitValue(s[Len(s)])

AllDigits(s) == Len(s) > 0 /\ \A i \in 1..Len(s) : s[i] \in DigitSet

\* int(line) raises ValueError unless the line is an optional sign
\* followed by at least one digit
IsIntLiteral(line) ==
    \/ AllDigits(line)
    \/ Len(line) > 1 /\ line[1] = "-" /\ AllDigits(Tail(line))

\* int(line) for a line that is an integer literal
IntOf(line) ==
    IF line[1] = "-" THEN 0 - DigitsValue(Tail(line)) ELSE DigitsValue(line)

\* str(n) of a natural number, as used by the f-strings
RECURSIVE NatStr(_)
NatStr(n) ==
    IF n < 10 THEN <<DigitChars[n + 1]>>
    ELSE NatStr(n \div 10) \o <<DigitChars[(n % 10) + 1]>>

TwoDigits(n) == <<DigitChars[((n \div 10) % 10) + 1], DigitChars[(n % 10) + 1]>>

FourDigits(n) == TwoDigits(n \div 100) \o TwoDigits(n % 100)

\* dt.strftime('%H:%M %d.%m.%Y') for dt = <<year, month, day, hour, minute>>
Strftime(dt) ==
    TwoDigits(dt[4]) \o <<":">> \o TwoDigits(dt[5]) \o <<" ">> \o
    TwoDigits(dt[3]) \o <<".">> \o TwoDigits(dt[2]) \o <<".">> \o
    FourDigits(dt[1])

\* the lines input() can return
RECURSIVE LinesOfLen(_)
LinesOfLen(n) ==
    IF n = 0 THEN {<<>>}
    ELSE {Append(s, c) : s \in LinesOfLen(n - 1), c \in Chars}

InputLines == UNION {LinesOfLen(n) : n \in 0..MaxLineLen}

\* ------------------------------------------------- provider data (inputs)
StationNames ==
    <<"Berlin Hbf", "Berlin Ostbahnhof", "Berlin Suedkreuz", "Berlin Gesundbrunnen",
      "Berlin Spandau", "Berlin Zoo", "Berlin Friedrichstr", "Berlin Alexanderplatz",
      "Berlin Wannsee">>

\* pyhafas Station: id, name, latitude, longitude (coordinates in 1/100 degree)
Station(i) ==
    [id |-> i,
     name |-> StationNames[((i - 1) % Len(StationNames)) + 1],
     latitude |-> 5200 + 3 * i,
     longitude |-> 1300 + 7 * i]

NoStation == [id |-> 0, name |-> "", latitude |-> 0, longitude |-> 0]

\* the answers of hafas_client.locations: relevance-ordered, possibly empty
LookupResults ==
    {[i \in 1..k |-> Station(a + i - 1)] : a \in 1..MaxOffset, k \in 0..MaxLoc}

StationStrs == {"Berlin", "Hbf"}

\* pyhafas Stopover q of leg j; t selects which of the two optional times exist
Stopover(j, q, t) ==
    [stop |-> Station(10 * j + q),
     arrival |-> IF (j + q + t) % 4 \in {0, 2}
                 THEN <<2024, 5, 17, 8 + j, 10 * q + 7>> ELSE None,
     departure |-> IF (j + q + t) % 4 \in {0, 1}
                   THEN <<2024, 5, 17, 8 + j, 10 * q + 9>> ELSE None]

\* pyhafas Leg j with m stopovers
Leg(j, m, t) ==
    [origin |-> Station(j),
     destination |-> Station(j + 1),
     departure |-> <<2024, 5, 17, 8 + j, 5>>,
     arrival |-> <<2024, 5, 17, 8 + j, 50>>,
     stopovers |-> [q \in 1..m |-> Stopover(j, q, t)]]

\* pyhafas Journey of n >= 1 legs; duration in minutes
Journey(n, a, b) ==
    [legs |-> [j \in 1..n |-> Leg(j, (a * j + b) % (MaxStops + 1), b)],
     duration |-> 60 * n - 15]

JourneyPool ==
    {Journey(n, a, b) : n \in 1..MaxLegs, a \in 0..1, b \in 0..MaxStops}

\* the answers of hafas_client.journeys: an ordered batch, possibly empty
JourneyResults ==
    {[i \in 1..n |-> Journey((((i - 1) * 2 + p * 3) % MaxLegs) + 1,
                             i % 2, (i + p) % (MaxStops + 1))] :
        n \in 0..MaxJourneys, p \in 0..(MaxVariants - 1)}

\* ----------------------------------------------------------------- state
VARIABLES
    pc,                     \* position of the program
    args,                   \* argparse namespace: the two station strings
    resolving,              \* which call of convert_station_str_to_station runs
    station_str,            \* its parameter
    locations,              \* its local: the lookup result
    station,                \* its local: the station to return
    start_station_index,    \* its local: <<>> until assigned, then <<index>>
    typed,                  \* the line the last input() returned, as <<line>>
    start_station,          \* __main__
    destination_station,    \* __main__
    journeys,               \* __main__
    route_selection,        \* __main__: <<>> until assigned, then <<n>>
    journey,                \* draw: parameter
    only_transfer_stations, \* draw: parameter
    map,                    \* draw: the folium map being built
    transfer_count,         \* draw: local
    leg_pos,                \* draw: legs the for loop has consumed
    shown,                  \* stdout: candidate lines of the running convert call
    summary,                \* stdout: the lines printed per journey
    message,                \* stdout: the last other line printed
    prompts,                \* the input() calls made so far
    calls,                  \* the calls made to hafas_client and map.save
    saved,                  \* output.html: <<>> or <<map>>
    exit_code,              \* process exit status once pc is "exit" or "done"
    traceback               \* uncaught exception that ended the process, or ""

convert_vars == <<resolving, station_str, locations, station, start_station_index>>

main_vars == <<start_station, destination_station, journeys, route_selection>>

draw_vars == <<journey, only_transfer_stations, map, transfer_count, leg_pos>>

out_vars == <<shown, summary, message, prompts, calls, saved>>

vars == <<pc, args, typed, convert_vars, main_vars, draw_vars, out_vars, exit_code, traceback>>

NoMap == [location |-> <<0, 0>>, zoom_start |-> 0, children |-> <<>>]

NoJourney == [legs |-> <<>>, duration |-> 0]

Line(text, arg) == [text |-> text, arg |-> arg]

\* the state of the interpreter before convert_station_str_to_station is called
InitMemory ==
    /\ resolving = "start"
    /\ station_str = ""
    /\ locations = <<>>
    /\ station = NoStation
    /\ start_station_index = <<>>
    /\ typed = <<>>
    /\ start_station = NoStation
    /\ destination_station = NoStation
    /\ journeys = <<>>
    /\ route_selection = <<>>
    /\ map = NoMap
    /\ transfer_count = 0
    /\ leg_pos = 0

InitOutput ==
    /\ shown = <<>>
    /\ summary = <<>>
    /\ message = Line("", <<>>)
    /\ prompts = <<>>
    /\ calls = <<>>
    /\ saved = <<>>
    /\ exit_code = 0
    /\ traceback = ""

\* the program at line 144, the two station strings known and different
Init ==
    /\ pc = "call"
    /\ args \in {a \in [start_station_str : StationStrs,
                           destination_station_str : StationStrs] :
                     a.start_station_str # a.destination_station_str}
    /\ InitMemory
    /\ journey = NoJourney
    /\ only_transfer_stations = FALSE
    /\ InitOutput

\* the process ends: its memory is gone, what it wrote stays
Terminate(code, tb) ==
    /\ pc' = "exit"
    /\ exit_code' = code
    /\ traceback' = tb
    /\ resolving' = ""
    /\ station_str' = ""
    /\ locations' = <<>>
    /\ station' = NoStation
    /\ start_station_index' = <<>>
    /\ typed' = <<>>
    /\ start_station' = NoStation
    /\ destination_station' = NoStation
    /\ journeys' = <<>>
    /\ route_selection' = <<>>
    /\ journey' = NoJourney
    /\ only_transfer_stations' = FALSE
    /\ map' = NoMap
    /\ transfer_count' = 0
    /\ leg_pos' = 0
    /\ UNCHANGED args

\* sys.exit(1) after print(text)
SysExit(text, arg) ==
    /\ message' = Line(text, arg)
    /\ Terminate(1, "")

\* an exception nobody catches: the interpreter prints the traceback, status 1
Uncaught(exc) ==
    /\ UNCHANGED message
    /\ Terminate(1, exc)

\* ------------------------------------------------------- Python lists
Min(a, b) == IF a < b THEN a ELSE b

\* seq[i] does not raise IndexError
InRange(seq, i) == 0 - Len(seq) <= i /\ i < Len(seq)

\* seq[i], 0-based, a negative i counting from the end
PyItem(seq, i) == IF i >= 0 THEN seq[i + 1] ELSE seq[Len(seq) + i + 1]

\* seq[:n]
PyPrefix(seq, n) == SubSeq(seq, 1, Min(n, Len(seq)))

\* ------------------------------------- convert_station_str_to_station
\* for i, location in enumerate(locations[:5]): print(f"{i+1}: {location.name}")
ShownLines(locs) ==
    [i \in 1..Len(PyPrefix(locs, ShownLimit)) |->
        [number |-> (i - 1) + 1, name |-> PyPrefix(locs, ShownLimit)[i].name]]

\* the call at line 144 or 145 and the lookup of line 17
Convert_Lookup ==
    /\ pc = "call"
    /\ station_str' = IF resolving = "start" THEN args.start_station_str
                      ELSE args.destination_station_str
    /\ \E r \in LookupResults : locations' = r
    /\ station' = NoStation
    /\ start_station_index' = <<>>
    /\ calls' = Append(calls, Line("locations", <<station_str'>>))
    /\ pc' = "branch"
    /\ UNCHANGED <<args, typed, resolving, main_vars, draw_vars, shown, summary,
                   message, prompts, saved, exit_code, traceback>>

\* variant: the sys.exit(1) of line 23 is missing, control falls into the else branch
Convert_NotFound_NoExit ==
    /\ message' = Line("Could not find any stations with the name", <<station_str>>)
    /\ shown' = ShownLines(locations)
    /\ pc' = "prompt"
    /\ UNCHANGED <<args, typed, convert_vars, main_vars, draw_vars, summary, prompts,
                   calls, saved, exit_code, traceback>>

\* lines 21-23: nothing found
Convert_NotFound ==
    /\ SysExit("Could not find any stations with the name", <<station_str>>)
    /\ UNCHANGED <<shown, summary, prompts, calls, saved>>

\* variant: a single result is listed and asked about like several
Convert_Single_Prompts ==
    /\ message' = Line("Found the following stations:", <<>>)
    /\ shown' = ShownLines(locations)
    /\ pc' = "prompt"
    /\ UNCHANGED <<args, typed, convert_vars, main_vars, draw_vars, summary, prompts,
                   calls, saved, exit_code, traceback>>

\* lines 25-27: one station found
Convert_Single ==
    /\ message' = Line("Found the following station:", <<locations[1].name>>)
    /\ station' = locations[1]
    /\ pc' = "return"
    /\ UNCHANGED <<args, typed, resolving, station_str, locations, start_station_index,
                   main_vars, draw_vars, shown, summary, prompts, calls, saved,
                   exit_code, traceback>>

\* lines 29-32: several stations found, the first of them are listed
Convert_Multiple ==
    /\ message' = Line("Found the following stations:", <<>>)
    /\ shown' = ShownLines(locations)
    /\ pc' = "prompt"
    /\ UNCHANGED <<args, typed, convert_vars, main_vars, draw_vars, summary, prompts,
                   calls, saved, exit_code, traceback>>

\* lines 21-32: the three cases of len(locations)
Convert_Branch ==
    /\ pc = "branch"
    /\ IF Len(locations) = 0 THEN Convert_NotFound
       ELSE IF Len(locations) = 1 THEN Convert_Single
       ELSE Convert_Multiple

\* variant: the selection is used as a 0-based index
SelectedIndex_ZeroBased(line) == IntOf(line)

\* line 34: int(input(...))-1
SelectedIndex(line) == IntOf(line) - 1

\* lines 33-41: read the selection, index the lookup result
Convert_Select ==
    /\ pc = "prompt"
    /\ prompts' = Append(prompts, "Please select the station you want to use: ")
    /\ \E line \in InputLines :
         IF ~IsIntLiteral(line)
         THEN /\ SysExit("Invalid input", <<>>)
              /\ UNCHANGED <<shown, summary, calls, saved>>
         ELSE IF ~InRange(locations, SelectedIndex(line))
         THEN /\ SysExit("Invalid index", <<>>)
              /\ UNCHANGED <<shown, summary, calls, saved>>
         ELSE /\ typed' = <<line>>
              /\ start_station_index' = <<SelectedIndex(line)>>
              /\ station' = PyItem(locations, SelectedIndex(line))
              /\ pc' = "return"
              /\ UNCHANGED <<args, resolving, station_str, locations, main_vars,
                             draw_vars, shown, summary, message, calls, saved,
                             exit_code, traceback>>

\* line 42, and the assignment of line 144 or 145
Convert_Return ==
    /\ pc = "return"
    /\ IF resolving = "start"
       THEN /\ start_station' = station
            /\ resolving' = "destination"
            /\ pc' = "call"
            /\ UNCHANGED destination_station
       ELSE /\ destination_station' = station
            /\ resolving' = ""
            /\ pc' = "journeys"
            /\ UNCHANGED start_station
    /\ station_str' = ""
    /\ locations' = <<>>
    /\ station' = NoStation
    /\ start_station_index' = <<>>
    /\ typed' = <<>>
    /\ shown' = <<>>
    /\ UNCHANGED <<args, journeys, route_selection, draw_vars, summary, message,
                   prompts, calls, saved, exit_code, traceback>>

\* ------------------------------------------------------------- __main__
\* variant: the destination of the last leg is listed as a change too
SummaryLine_AllLegs(i, j) ==
    IF Len(j.legs) = 1
    THEN [index |-> NatStr(i),
          starts |-> Strftime(j.legs[1].departure),
          ends |-> Strftime(PyItem(j.legs, 0 - 1).arrival),
          duration |-> j.duration,
          changes |-> <<"no changes">>,
          at |-> <<>>]
    ELSE [index |-> NatStr(i),
          starts |-> Strftime(j.legs[1].departure),
          ends |-> Strftime(PyItem(j.legs, 0 - 1).arrival),
          duration |-> j.duration,
          changes |-> NatStr(Len(j.legs) - 1) \o <<" changes">>,
          at |-> [k \in 1..Len(j.legs) |-> j.legs[k].destination.name]]

\* lines 155-158: the line printed for journey j at position i of the batch
SummaryLine(i, j) ==
    IF Len(j.legs) = 1
    THEN [index |-> NatStr(i),
          starts |-> Strftime(j.legs[1].departure),
          ends |-> Strftime(PyItem(j.legs, 0 - 1).arrival),
          duration |-> j.duration,
          changes |-> <<"no changes">>,
          at |-> <<>>]
    ELSE [index |-> NatStr(i),
          starts |-> Strftime(j.legs[1].departure),
          ends |-> Strftime(PyItem(j.legs, 0 - 1).arrival),
          duration |-> j.duration,
          changes |-> NatStr(Len(j.legs) - 1) \o <<" changes">>,
          at |-> [k \in 1..(Len(j.legs) - 1) |-> j.legs[k].destination.name]]

\* lines 146-158: the journey query and the listing
Main_Journeys ==
    /\ pc = "journeys"
    /\ \E r \in JourneyResults :
         /\ journeys' = r
         /\ message' = Line("Found possible routes for your trip",
                            NatStr(Len(r)) \o <<start_station.name, destination_station.name>>)
         /\ summary' = [i \in 1..Len(r) |-> SummaryLine(i - 1, r[i])]
    /\ calls' = Append(calls, Line("journeys", <<start_station.name, destination_station.name>>))
    /\ pc' = "select"
    /\ UNCHANGED <<args, typed, convert_vars, start_station, destination_station,
                   route_selection, draw_vars, shown, prompts, saved, exit_code, traceback>>

\* lines 159-166: read the selection, check its range, call draw_and_save_to_file
Main_SelectRoute ==
    /\ pc = "select"
    /\ prompts' = Append(prompts, "Please select the journey you want to use: ")
    /\ \E line \in InputLines :
         IF ~IsIntLiteral(line)
         THEN /\ Uncaught("ValueError")
              /\ UNCHANGED <<shown, summary, calls, saved>>
         ELSE IF IntOf(line) < 0 \/ IntOf(line) >= Len(journeys)
         THEN /\ SysExit("Invalid selection", <<>>)
              /\ UNCHANGED <<shown, summary, calls, saved>>
         ELSE /\ typed' = <<line>>
              /\ route_selection' = <<IntOf(line)>>
              /\ journey' = journeys[IntOf(line) + 1]
              /\ only_transfer_stations' = FALSE
              /\ pc' = "draw"
              /\ UNCHANGED <<args, convert_vars, start_station, destination_station,
                             journeys, map, transfer_count, leg_pos, shown, summary,
                             message, calls, saved, exit_code, traceback>>

\* ----------------------------------------------------------------- draw
\* [...][transfer_count%5]
PaletteModulus == 5

Circle(lat, lon, popup) ==
    [type |-> "Circle", radius |-> CircleRadius, location |-> <<lat, lon>>,
     popup |-> popup, color |-> "crimson", fill |-> TRUE]

PolyLine(points, color) == [type |-> "PolyLine", locations |-> points, color |-> color]

\* variant: the arrival time is preferred over the departure time
StopoverTime_ArrivalFirst(stopover) ==
    IF stopover.arrival # None THEN Strftime(stopover.arrival)
    ELSE IF stopover.departure # None THEN Strftime(stopover.departure)
    ELSE <<"unknown">>

\* line 74: the time shown in the popup of a stopover
StopoverTime(stopover) ==
    IF stopover.departure # None THEN Strftime(stopover.departure)
    ELSE IF stopover.arrival # None THEN Strftime(stopover.arrival)
    ELSE <<"unknown">>

\* f"{name} - {time}"
Popup(name, time) == <<name, " - ">> \o time

\* variant: the detailed route line starts at the origin of the leg
LegPoints_WithOrigin(leg, only_transfer) ==
    IF only_transfer = FALSE
    THEN <<<<leg.origin.latitude, leg.origin.longitude>>>> \o
         [q \in 1..Len(leg.stopovers) |->
            <<leg.stopovers[q].stop.latitude, leg.stopovers[q].stop.longitude>>]
    ELSE <<<<leg.origin.latitude, leg.origin.longitude>>,
           <<leg.destination.latitude, leg.destination.longitude>>>>

\* lines 63-95: route_line_points of one leg
LegPoints(leg, only_transfer) ==
    IF only_transfer = FALSE
    THEN [q \in 1..Len(leg.stopovers) |->
            <<leg.stopovers[q].stop.latitude, leg.stopovers[q].stop.longitude>>]
    ELSE <<<<leg.origin.latitude, leg.origin.longitude>>,
           <<leg.destination.latitude, leg.destination.longitude>>>>

\* lines 63-95: the circles one leg adds to the map, in the order added
LegCircles(leg, only_transfer) ==
    IF only_transfer = FALSE
    THEN [q \in 1..Len(leg.stopovers) |->
            Circle(leg.stopovers[q].stop.latitude, leg.stopovers[q].stop.longitude,
                   Popup(leg.stopovers[q].stop.name, StopoverTime(leg.stopovers[q])))]
    ELSE <<Circle(leg.origin.latitude, leg.origin.longitude,
                  Popup(leg.origin.name, Strftime(leg.departure))),
           Circle(leg.destination.latitude, leg.destination.longitude,
                  Popup(leg.destination.name, Strftime(leg.arrival)))>>

\* variant: the last colour of the palette is never reached
LegColor_FourColours(count) == Palette[(count % (PaletteModulus - 1)) + 1]

\* line 97: the colour of the polyline
LegColor(count) == Palette[(count % PaletteModulus) + 1]

\* lines 49-59: the map, its two controls, the counter
Draw_Init ==
    /\ pc = "draw"
    /\ map' = [location |-> <<journey.legs[1].origin.latitude,
                              journey.legs[1].origin.longitude>>,
               zoom_start |-> ZoomStart,
               children |-> <<[type |-> "LocateControl"], [type |-> "MeasureControl"]>>]
    /\ transfer_count' = 0
    /\ leg_pos' = 0
    /\ pc' = "legs"
    /\ UNCHANGED <<args, typed, convert_vars, main_vars, journey, only_transfer_stations,
                   out_vars, exit_code, traceback>>

\* lines 61-98: one iteration of the loop over journey.legs
Draw_Leg ==
    /\ pc = "legs"
    /\ leg_pos < Len(journey.legs)
    /\ LET leg == journey.legs[leg_pos + 1] IN
         map' = [map EXCEPT !.children =
                    @ \o LegCircles(leg, only_transfer_stations)
                      \o <<PolyLine(LegPoints(leg, only_transfer_stations),
                                    LegColor(transfer_count))>>]
    /\ transfer_count' = transfer_count + 1
    /\ leg_pos' = leg_pos + 1
    /\ UNCHANGED <<pc, args, typed, convert_vars, main_vars, journey, only_transfer_stations,
                   out_vars, exit_code, traceback>>

\* line 100: the loop is exhausted, the map goes back to draw_and_save_to_file
Draw_Return ==
    /\ pc = "legs"
    /\ leg_pos = Len(journey.legs)
    /\ pc' = "save"
    /\ UNCHANGED <<args, typed, convert_vars, main_vars, draw_vars, out_vars, exit_code, traceback>>

\* line 112: map.save(map_filename) writes the file or raises OSError
Save ==
    /\ pc = "save"
    /\ calls' = Append(calls, Line("save", <<"output.html">>))
    /\ \/ /\ saved' = <<map>>
          /\ pc' = "saved"
          /\ UNCHANGED <<args, typed, convert_vars, main_vars, draw_vars, shown, summary,
                         message, prompts, exit_code, traceback>>
       \/ /\ Uncaught("OSError")
          /\ UNCHANGED <<shown, summary, prompts, saved>>

\* line 167
Main_Finish ==
    /\ pc = "saved"
    /\ message' = Line("Saved map", <<>>)
    /\ pc' = "done"
    /\ exit_code' = 0
    /\ UNCHANGED <<args, typed, convert_vars, main_vars, draw_vars, shown, summary, prompts,
                   calls, saved, traceback>>

\* --------------------------------------------------------- specifications
Next ==
    \/ Convert_Lookup
    \/ Convert_Branch
    \/ Convert_Select
    \/ Convert_Return
    \/ Main_Journeys
    \/ Main_SelectRoute
    \/ Draw_Init
    \/ Draw_Leg
    \/ Draw_Return
    \/ Save
    \/ Main_Finish

\* the program run from the command line
Spec == Init /\ [][Next]_vars

\* draw_and_save_to_file called on a journey, in either mode
InitDraw ==
    /\ pc = "draw"
    /\ args \in [start_station_str : {"Berlin"}, destination_station_str : {"Hbf"}]
    /\ InitMemory
    /\ InitOutput
    /\ journey \in JourneyPool
    /\ only_transfer_stations \in BOOLEAN

NextDraw ==
    \/ Draw_Init
    \/ Draw_Leg
    \/ Draw_Return
    \/ Save

SpecDraw == InitDraw /\ [][NextDraw]_vars

\* ----------------------------------------------------------- properties
\* the number typed at the prompt the program has just answered
TypedNumber == IntOf(typed[1])

\* convert_station_str_to_station is about to return a station chosen at the prompt
ReturnsAfterPrompt == pc = "return" /\ typed # <<>>

\* C1: with k > 1 candidates, a selection of 0, of a negative integer or of
\* k+1 never returns a station (it ends the process with an invalid-selection
\* error instead), so a station returned after the prompt was selected by a
\* positive number other than k+1.
C1_BadSelectionNeverReturns ==
    (ReturnsAfterPrompt /\ Len(locations) > 1) =>
        /\ TypedNumber > 0
        /\ TypedNumber # Len(locations) + 1

\* C2: with k > 1 candidates exactly min(k, 5) entries are displayed, numbered
\* 1..min(k, 5) in provider order, and the 1-based selection n of a displayed
\* entry returns candidate n-1 of the lookup result, the one whose name was
\* shown next to n.
C2_ShownAndSelected ==
    (pc \in {"prompt", "return"} /\ Len(locations) > 1) =>
        /\ Len(shown) = (IF Len(locations) < 5 THEN Len(locations) ELSE 5)
        /\ \A i \in 1..Len(shown) :
              /\ shown[i].number = i
              /\ shown[i].name = locations[i].name
        /\ (ReturnsAfterPrompt /\ TypedNumber \in 1..Len(shown)) =>
              /\ station = locations[(TypedNumber - 1) + 1]
              /\ station.name = shown[TypedNumber].name

\* of more than five candidates the fifth, the last one displayed, was selected
C2_Witness ==
    /\ ReturnsAfterPrompt
    /\ Len(locations) > 5
    /\ Len(shown) = 5
    /\ TypedNumber = 5
    /\ station = locations[5]

\* C3: an empty lookup result ends the run with the not-found report naming
\* the station string and exit status 1; no prompt is read, no station is
\* returned, and nothing happens afterwards: no lookup, no journey query, no
\* rendering, no export.
C3_NotFoundIsFatal ==
    [][/\ (pc = "branch" /\ Len(locations) = 0) =>
             /\ pc' = "exit"
             /\ exit_code' = 1
             /\ traceback' = ""
             /\ station_str = (IF resolving = "start" THEN args.start_station_str
                               ELSE args.destination_station_str)
             /\ message' = Line("Could not find any stations with the name",
                                <<station_str>>)
             /\ prompts' = prompts
             /\ calls' = calls
             /\ summary' = summary
             /\ saved' = saved
             /\ station' = NoStation
             /\ start_station' = NoStation
             /\ destination_station' = NoStation
       /\ pc # "exit"]_vars

\* the lookup of the destination found nothing, after the origin was resolved
C3_Witness ==
    /\ pc = "exit"
    /\ exit_code = 1
    /\ message = Line("Could not find any stations with the name",
                      <<args.destination_station_str>>)
    /\ Len(calls) = 2
    /\ saved = <<>>

\* C4: a lookup result of exactly one entry is returned as it is without
\* reading input; the prompt is reached if and only if the lookup returned
\* more than one candidate.
C4_SingleResultNoPrompt ==
    [][/\ (pc = "branch" /\ Len(locations) = 1) =>
             /\ pc' = "return"
             /\ station' = locations[1]
             /\ prompts' = prompts
             /\ typed' = <<>>
       /\ (pc = "branch" /\ Len(locations) > 1) => pc' = "prompt"
       /\ pc' = "prompt" => Len(locations') > 1
       /\ prompts' # prompts /\ pc \in {"branch", "prompt", "return"} =>
             Len(locations) > 1
       /\ (pc = "return" /\ Len(locations) = 1) =>
             /\ prompts' = prompts
             /\ IF resolving = "start" THEN start_station' = locations[1]
                ELSE destination_station' = locations[1]]_vars

\* the only station found for the destination is being returned, nothing was read
C4_Witness ==
    /\ pc = "return"
    /\ resolving = "destination"
    /\ Len(locations) = 1
    /\ station = locations[1]
    /\ typed = <<>>
    /\ prompts = <<>>

\* C10: a station returned after the prompt is one of the at most five
\* candidates that were displayed; none at position 6 or later is returned.
C10_ReturnedWasDisplayed ==
    (ReturnsAfterPrompt /\ Len(locations) > 1) =>
        \E i \in 1..Len(shown) :
            /\ i <= 5
            /\ station = locations[i]

\* the loop of draw has started and the process has not ended
Drawing == pc \in {"legs", "save", "saved"}

PolylinesOf(m) == SelectSeq(m.children, LAMBDA e : e.type = "PolyLine")

CirclesOf(m) == SelectSeq(m.children, LAMBDA e : e.type = "Circle")

\* the circle markers leg i is to contribute in the mode of this call
MarkersOfLeg(i) ==
    IF only_transfer_stations THEN 2 ELSE Len(journey.legs[i].stopovers)

\* where in the children of the map the polyline of leg i is to be, after the
\* two controls and the markers and polylines of the legs before it
RECURSIVE PolylineAt(_)
PolylineAt(i) == IF i = 0 THEN 2 ELSE PolylineAt(i - 1) + MarkersOfLeg(i) + 1

\* C5: draw adds exactly one polyline per leg, in leg order, also for legs of
\* 0 or 1 points.  In detailed mode a leg with m stopovers gives a polyline of
\* exactly the m stopover coordinates in order and m circle markers; in
\* transfer-only mode every leg gives the 2 points origin, destination and 2
\* circle markers.
C5_OnePolylinePerLeg ==
    Drawing =>
        /\ pc \in {"save", "saved"} => leg_pos = Len(journey.legs)
        /\ Len(map.children) = PolylineAt(leg_pos)
        /\ Len(PolylinesOf(map)) = leg_pos
        /\ Len(CirclesOf(map)) = PolylineAt(leg_pos) - 2 - leg_pos
        /\ \A i \in 1..leg_pos :
              LET leg == journey.legs[i]
                  line == map.children[PolylineAt(i)]
                  first == PolylineAt(i - 1)
              IN  /\ line.type = "PolyLine"
                  /\ line = PolylinesOf(map)[i]
                  /\ IF only_transfer_stations
                     THEN line.locations =
                            <<<<leg.origin.latitude, leg.origin.longitude>>,
                              <<leg.destination.latitude, leg.destination.longitude>>>>
                     ELSE /\ Len(line.locations) = Len(leg.stopovers)
                          /\ \A q \in 1..Len(leg.stopovers) :
                                line.locations[q] = <<leg.stopovers[q].stop.latitude,
                                                      leg.stopovers[q].stop.longitude>>
                  /\ \A q \in 1..MarkersOfLeg(i) :
                        /\ map.children[first + q].type = "Circle"
                        /\ map.children[first + q].location = line.locations[q]

\* a detailed map is complete: a leg with 2 stopovers, then one with none
C5_Witness ==
    /\ pc = "save"
    /\ only_transfer_stations = FALSE
    /\ Len(journey.legs) = 2
    /\ Len(journey.legs[1].stopovers) = 2
    /\ Len(journey.legs[2].stopovers) = 0
    /\ Len(PolylinesOf(map)) = 2
    /\ Len(PolylinesOf(map)[1].locations) = 2
    /\ PolylinesOf(map)[2].locations = <<>>
    /\ Len(CirclesOf(map)) = 2

\* C6: the leg counter starts at 0 and grows by one per leg processed, and the
\* polyline of leg i (0-based) has colour palette[i mod 5] of the palette
\* Red, Blue, Green, Black, White, in both modes, whatever the stopovers.
C6_ColourByLegPosition ==
    Drawing =>
        /\ transfer_count = leg_pos
        /\ Len(PolylinesOf(map)) = leg_pos
        /\ \A i \in 0..(leg_pos - 1) :
              PolylinesOf(map)[i + 1].color =
                  <<"Red", "Blue", "Green", "Black", "White">>[(i % 5) + 1]

\* seven legs were drawn
C6_Witness ==
    /\ pc = "save"
    /\ Len(journey.legs) = 7
    /\ [i \in 1..7 |-> PolylinesOf(map)[i].color] =
          <<"Red", "Blue", "Green", "Black", "White", "Red", "Blue">>
    /\ \E i \in 1..7 : Len(journey.legs[i].stopovers) = 2

\* C7: in detailed mode the popup of a stopover marker shows the departure
\* time if there is one, else the arrival time if there is one, else the text
\* unknown; a stopover without both still gives its point and its marker.
C7_PopupTimePolicy ==
    (Drawing /\ only_transfer_stations = FALSE) =>
        /\ Len(map.children) = PolylineAt(leg_pos)
        /\ \A i \in 1..leg_pos :
              \A q \in 1..Len(journey.legs[i].stopovers) :
                 LET stopover == journey.legs[i].stopovers[q]
                     marker == map.children[PolylineAt(i - 1) + q]
                 IN  /\ marker.type = "Circle"
                     /\ marker.location = <<stopover.stop.latitude, stopover.stop.longitude>>
                     /\ map.children[PolylineAt(i)].locations[q] = marker.location
                     /\ marker.popup =
                          <<stopover.stop.name, " - ">> \o
                          (IF stopover.departure # <<>> THEN Strftime(stopover.departure)
                           ELSE IF stopover.arrival # <<>> THEN Strftime(stopover.arrival)
                           ELSE <<"unknown">>)

\* a detailed map with a marker of a stopover without times, one of a stopover
\* with an arrival only, and one of a stopover with both times
C7_Witness ==
    /\ pc = "save"
    /\ only_transfer_stations = FALSE
    /\ \E i \in 1..Len(journey.legs) : \E q \in 1..Len(journey.legs[i].stopovers) :
          /\ journey.legs[i].stopovers[q].departure = <<>>
          /\ journey.legs[i].stopovers[q].arrival = <<>>
    /\ \E c \in 1..Len(CirclesOf(map)) :
          CirclesOf(map)[c].popup = <<"Berlin Suedkreuz", " - ", "unknown">>
    /\ \E c \in 1..Len(CirclesOf(map)) :
          CirclesOf(map)[c].popup =
             <<"Berlin Ostbahnhof", " - ", "0", "9", ":", "1", "7", " ",
               "1", "7", ".", "0", "5", ".", "2", "0", "2", "4">>
    /\ \E c \in 1..Len(CirclesOf(map)) :
          CirclesOf(map)[c].popup =
             <<"Berlin Gesundbrunnen", " - ", "1", "0", ":", "2", "9", " ",
               "1", "7", ".", "0", "5", ".", "2", "0", "2", "4">>

\* the journeys were listed and the process has not ended
Listed == pc \in {"select", "draw", "legs", "save", "saved", "done"}

\* C8: the line printed for a journey with legs L0..Ln carries its 0-based
\* position in the batch, the departure of L0 and the arrival of Ln, and the
\* transfer count n; for n > 0 it lists exactly the destination names of
\* L0..L(n-1) in order, for n = 0 it says no changes and lists no station.
C8_SummaryLines ==
    Listed =>
        /\ Len(summary) = Len(journeys)
        /\ \A i \in 0..(Len(journeys) - 1) :
              LET legs == journeys[i + 1].legs
                  n == Len(legs) - 1
                  line == summary[i + 1]
              IN  /\ DigitsValue(line.index) = i
                  /\ line.starts = Strftime(legs[1].departure)
                  /\ line.ends = Strftime(legs[n + 1].arrival)
                  /\ IF n = 0
                     THEN /\ line.changes = <<"no changes">>
                          /\ line.at = <<>>
                     ELSE /\ Len(line.changes) > 1
                          /\ line.changes[Len(line.changes)] = " changes"
                          /\ DigitsValue(SubSeq(line.changes, 1, Len(line.changes) - 1)) = n
                          /\ Len(line.at) = n
                          /\ \A k \in 1..n : line.at[k] = legs[k].destination.name

\* a batch of a direct journey and one with two changes was listed
C8_Witness ==
    /\ pc = "select"
    /\ Len(journeys) = 2
    /\ Len(journeys[1].legs) = 1
    /\ summary[1].index = <<"0">>
    /\ summary[1].starts = <<"0", "9", ":", "0", "5", " ",
                             "1", "7", ".", "0", "5", ".", "2", "0", "2", "4">>
    /\ summary[1].changes = <<"no changes">>
    /\ Len(journeys[2].legs) = 3
    /\ summary[2].index = <<"1">>
    /\ summary[2].ends = <<"1", "1", ":", "5", "0", " ",
                           "1", "7", ".", "0", "5", ".", "2", "0", "2", "4">>
    /\ summary[2].changes = <<"2", " changes">>
    /\ summary[2].at = <<"Berlin Ostbahnhof", "Berlin Suedkreuz">>

\* C9: a map is exported only after the origin and then the destination were
\* resolved, the journey query returned and a selection s with
\* 0 <= s < len(journeys) was entered, and it is the map of journey s; a
\* malformed or out-of-range selection is reported as an invalid selection
\* and ends the run with a non-zero status, nothing rendered or exported.
C9_ExportOnlyAfterValidSelection ==
    /\ (pc \in {"draw", "legs", "save", "saved", "done"} \/ saved # <<>>) =>
          /\ start_station # NoStation
          /\ destination_station # NoStation
          /\ Len(calls) >= 3
          /\ calls[1] = Line("locations", <<args.start_station_str>>)
          /\ calls[2] = Line("locations", <<args.destination_station_str>>)
          /\ calls[3].text = "journeys"
          /\ route_selection # <<>>
          /\ route_selection[1] \in 0..(Len(journeys) - 1)
          /\ journey = journeys[route_selection[1] + 1]
          /\ saved # <<>> =>
                /\ saved[1].location = <<journey.legs[1].origin.latitude,
                                         journey.legs[1].origin.longitude>>
                /\ Len(PolylinesOf(saved[1])) = Len(journey.legs)
    /\ (/\ pc = "exit"
        /\ prompts # <<>>
        /\ prompts[Len(prompts)] = "Please select the journey you want to use: "
        /\ calls[Len(calls)].text # "save") =>
          /\ message = Line("Invalid selection", <<>>)
          /\ exit_code = 1
          /\ traceback = ""
          /\ saved = <<>>

====
